---- MODULE Spec2Model ----
(***************************************************************************)
(* Model of AclNNInvocation/scripts/gen_data.py: the generator of the Mish *)
(* test fixture.  gen_golden_data_simple samples a tensor, rounds it to    *)
(* IEEE 754 binary16, computes x * tanh(log(1 + exp(x))) with every        *)
(* intermediate array in binary16, and writes both tensors to raw files.   *)
(*                                                                         *)
(* A binary16 value is modelled by its 16-bit pattern (sign 0 throughout:  *)
(* every value of this program is positive).  Real numbers are fixed-point *)
(* integers; an operator's suffix or comment names the scale.  TLC's       *)
(* integers are 32-bit, so products are formed limb by limb.               *)
(***************************************************************************)
EXTENDS Integers, Sequences, FiniteSets, TLC

(***************************************************************************)
(* Fixed-point arithmetic.  The numeric definitions are functions, so that *)
(* an argument is evaluated once, where it is applied.                     *)
(***************************************************************************)
Pow2(n) == 2 ^ n

\* 1.0 at scale 2^28, the scale of values below 4.
ONE == Pow2(28)

LIMB == Pow2(14)

\* Number of binary digits of n >= 0.
BitLen[n \in Int] == IF n = 0 THEN 0 ELSE 1 + BitLen[n \div 2]

\* n / 2^sh rounded to the nearest integer, ties to even.
RoundShift[n \in Int, sh \in Int] ==
    IF sh <= 0 THEN n * Pow2(0 - sh)
    ELSE IF sh > 30 THEN 0
    ELSE LET t    == n \div Pow2(sh)
             rem  == n % Pow2(sh)
             half == Pow2(sh - 1)
         IN  IF rem > half \/ (rem = half /\ t % 2 = 1) THEN t + 1 ELSE t

\* floor(a * b / 2^28) for 0 <= a, b < 2^30 (two 14-bit limbs each).
MulFix[a \in Int, b \in Int] ==
    LET a1 == a \div LIMB
        a0 == a % LIMB
        b1 == b \div LIMB
        b0 == b % LIMB
    IN  a1 * b1 + ((a1 * b0 + a0 * b1 + ((a0 * b0) \div LIMB)) \div LIMB)

\* floor(rem * 2^bitsLeft / b) + acc * 2^bitsLeft for 0 <= rem < b <= 2^30, by
\* binary long division.
LongDiv[rem \in Int, b \in Int, bitsLeft \in Int, acc \in Int] ==
    IF bitsLeft = 0 THEN acc
    ELSE IF 2 * rem >= b THEN LongDiv[2 * rem - b, b, bitsLeft - 1, 2 * acc + 1]
    ELSE LongDiv[2 * rem, b, bitsLeft - 1, 2 * acc]

\* floor(a * 2^28 / b) for 0 <= a <= b <= 2^30.
DivFix[a \in Int, b \in Int] == IF a = b THEN ONE ELSE LongDiv[a, b, 28, 0]

(***************************************************************************)
(* binary16.                                                               *)
(***************************************************************************)
HalfInf == 31744
HalfOne == 15360
HalfTen == 18688

HalfExpField(b) == b \div 1024

\* The 11-bit significand of a normal value, the 10-bit one of a subnormal.
HalfSig(b) == IF b < 1024 THEN b ELSE 1024 + (b % 1024)

\* The exponent field as arithmetic uses it: a subnormal has that of 2^-14.
HalfExp(b) == IF b < 1024 THEN 1 ELSE b \div 1024

HalfIsFinite(b) == b < HalfInf

\* The value of the positive finite b at scale 2^q: sig * 2^(e - 25 + q).
\* The callers choose q so that the result is an exact integer below 2^31.
HalfToFix[b \in Int, q \in Int] ==
    LET sh == HalfExp(b) - 25 + q
    IN  IF sh >= 0 THEN HalfSig(b) * Pow2(sh) ELSE HalfSig(b) \div Pow2(0 - sh)

\* The bit pattern of sig * 2^(ue - 10), sig an 11-bit significand or, after a
\* rounding that carried, 2^11.
HalfPack[sig \in Int, ue \in Int] ==
    IF sig = 2048 THEN (IF ue + 16 >= 31 THEN HalfInf ELSE (ue + 16) * 1024)
    ELSE IF ue + 15 >= 31 THEN HalfInf
    ELSE (ue + 15) * 1024 + (sig - 1024)

\* n / 2^q for an n of len binary digits: below 2^-14 a multiple of 2^-24,
\* else 11 significant digits.
HalfRound[n \in Int, q \in Int, len \in Int] ==
    IF len - 1 - q < -14 THEN RoundShift[n, q - 24]
    ELSE HalfPack[RoundShift[n, len - 11], len - 1 - q]

\* The real n / 2^q (n >= 0) rounded to binary16, nearest-even, overflow to
\* infinity, gradual underflow: what a cast to float16 stores.
RoundToHalf[n \in Int, q \in Int] == IF n = 0 THEN 0 ELSE HalfRound[n, q, BitLen[n]]

(***************************************************************************)
(* exp, log and tanh on fixed-point reals.  numpy evaluates a float16      *)
(* ufunc by the float32 routine of the C library and casts the result back *)
(* to float16; on the values of this program that equals the real function *)
(* rounded once to binary16, which is what is modelled.                    *)
(***************************************************************************)
\* ln 2 at scale 2^26 (rounded down), and 1000 * (2^28 ln 2 - 4 * LN2_26).
LN2_26 == 46516319
LN2_LO == 3355
\* ln 2 at scale 2^27.
LN2_27 == 93032640

\* x - n ln 2 at scale 2^28, for x = x26 / 2^26.
ExpRemOf[x26 \in Int, n \in Int] == 4 * (x26 - n * LN2_26) - ((n * LN2_LO) \div 1000)

\* The largest k with e^x >= 2^k, for x = x26 / 2^26 >= 0: floor(x / ln 2),
\* one less where the rounding of LN2_26 made that one too large.
ExpScale[x26 \in Int] ==
    IF ExpRemOf[x26, x26 \div LN2_26] < 0 THEN (x26 \div LN2_26) - 1 ELSE x26 \div LN2_26

\* x - ExpScale(x) ln 2, in [0, ln 2), at scale 2^28.
ExpRem[x26 \in Int] == ExpRemOf[x26, ExpScale[x26]]

\* sum of r^j / j! from j = k - 1 on, plus acc; term = r^(k-1) / (k-1)!.
ExpSeries[r \in Int, term \in Int, k \in Int, acc \in Int] ==
    IF term = 0 THEN acc
    ELSE ExpSeries[r, MulFix[term, r] \div k, k + 1, acc + term]

\* e^x / 2^ExpScale(x), in [1, 2], at scale 2^28.
ExpFrac[x26 \in Int] == ExpSeries[ExpRem[x26], ONE, 1, 0]

\* sum of z^j / j over the odd j from d on, plus acc; pw = z^d, z2 = z^2.
AtanhSeries[pw \in Int, z2 \in Int, d \in Int, acc \in Int] ==
    IF pw = 0 THEN acc
    ELSE AtanhSeries[MulFix[pw, z2], z2, d + 2, acc + (pw \div d)]

\* 2 atanh z at scale 2^28.
Atanh2[z \in Int] == 2 * AtanhSeries[z, MulFix[z, z], 1, 0]

\* ln m at scale 2^28 for m = m28 / 2^28 in [1, 3]: 2 atanh((m-1)/(m+1)).
LogFix[m28 \in Int] == Atanh2[DivFix[m28 - ONE, m28 + ONE]]

\* 1 - 2 / (w 2^n + 1) at scale 2^28, w at scale 2^28 in [1, 2].
TanhOfExp[n \in Int, w \in Int] ==
    IF n >= 30 THEN ONE
    ELSE ONE - ((2 * DivFix[ONE, w + (ONE \div Pow2(n))]) \div Pow2(n))

\* tanh s at scale 2^28 for s = s27 / 2^27 in [0, 15]: 1 - 2 / (e^(2s) + 1).
TanhFix[s27 \in Int] == TanhOfExp[ExpScale[s27], ExpFrac[s27]]

(***************************************************************************)
(* The float16 ufuncs of line 9, on one element.                           *)
(***************************************************************************)
\* np.exp on a float16 >= 0: e^16 is beyond the largest float16 (65504).
ExpHalf[x26 \in Int] == RoundToHalf[ExpFrac[x26], 28 - ExpScale[x26]]

np_exp[b \in Int] == IF HalfExpField(b) >= 19 THEN HalfInf ELSE ExpHalf[HalfToFix[b, 26]]

\* a + b on float16: the exact sum, rounded once.
np_add[a \in Int, b \in Int] ==
    IF ~HalfIsFinite(a) \/ ~HalfIsFinite(b) THEN HalfInf
    ELSE LET lo == IF HalfExp(a) < HalfExp(b) THEN HalfExp(a) ELSE HalfExp(b)
         IN  IF HalfExp(a) - lo > 19 THEN a
             ELSE IF HalfExp(b) - lo > 19 THEN b
             ELSE RoundToHalf[HalfSig(a) * Pow2(HalfExp(a) - lo)
                              + HalfSig(b) * Pow2(HalfExp(b) - lo), 25 - lo]

\* np.log on a float16 >= 1.
np_log[b \in Int] ==
    IF ~HalfIsFinite(b) THEN HalfInf
    ELSE RoundToHalf[(HalfExp(b) - 15) * LN2_27
                     + (LogFix[HalfSig(b) * Pow2(18)] \div 2), 27]

\* np.tanh on a float16 >= 0: from 16 on (and long before) the result is 1.
np_tanh[b \in Int] ==
    IF HalfExpField(b) >= 19 THEN HalfOne
    ELSE RoundToHalf[TanhFix[HalfToFix[b, 27]], 28]

\* a * b on float16: the exact product, rounded once.
np_multiply[a \in Int, b \in Int] ==
    IF ~HalfIsFinite(a) \/ ~HalfIsFinite(b) THEN HalfInf
    ELSE RoundToHalf[HalfSig(a) * HalfSig(b), 50 - HalfExp(a) - HalfExp(b)]

\* mish on one stored element: x * tanh(log(1 + exp(x))), each step in float16.
Mish[x \in Int] == np_multiply[x, np_tanh[np_log[np_add[HalfOne, np_exp[x]]]]]

(***************************************************************************)
(* The same expression on the reals (no intermediate rounding), at scale   *)
(* 2^24, for a float16 x in [1, 16): the reference of the error bound.     *)
(***************************************************************************)
\* ln(1 + e^x) at scale 2^27, from e^x = w 2^n.
SoftplusOfExp[n \in Int, w \in Int] ==
    n * LN2_27 + (LogFix[w + (ONE \div Pow2(n))] \div 2)

\* k t / 2^14 for t at scale 2^28: the product at scale 2^24 of k / 2^10 and t.
ScaleBy[k \in Int, t \in Int] == k * (t \div LIMB) + ((k * (t % LIMB)) \div LIMB)

\* ln(1 + e^x) at scale 2^27.
SoftplusFix[x26 \in Int] == SoftplusOfExp[ExpScale[x26], ExpFrac[x26]]

MishExact[x \in Int] == ScaleBy[HalfToFix[x, 10], TanhFix[SoftplusFix[HalfToFix[x, 26]]]]

(***************************************************************************)
(* The arrays.  A tensor is the sequence of its elements in row-major      *)
(* order (the order tofile writes); the shape [8, 2048] is scaled down to  *)
(* NumElems elements.                                                      *)
(***************************************************************************)
NumElems == 2

\* np.random.uniform(1, 10, ...): float64 samples in [SampleLow, SampleHigh),
\* modelled on the grid of the multiples of 2^-SampleBits.
SampleLow == 1
SampleHigh == 10
SampleBits == 11

\* np.random.uniform(0, 10, ...): the lower end of the range lost.
SampleGrid_FromZero == 0 .. (SampleHigh * Pow2(SampleBits) - 1)

\* np.random.uniform(1, 12, ...): a wider range.
SampleGrid_To12 == (SampleLow * Pow2(SampleBits)) .. (12 * Pow2(SampleBits) - 1)

SampleGrid == (SampleLow * Pow2(SampleBits)) .. (SampleHigh * Pow2(SampleBits) - 1)

\* The tensors of the runs with NumElems elements: the first k of them the
\* largest sample, the others the smallest, for every k.
RunTensors ==
    {[i \in 1 .. NumElems |-> IF i <= k THEN SampleHigh * Pow2(SampleBits) - 1
                                        ELSE SampleLow * Pow2(SampleBits)]
        : k \in 0 .. NumElems}

\* One-element tensors over the whole grid.
GridTensors == {<<s>> : s \in SampleGrid}

\* .astype(np.float16)
astype(t) == [i \in DOMAIN t |-> RoundToHalf[t[i], SampleBits]]

\* A ufunc of one array, and of a scalar and an array or of two arrays of
\* one shape: a new array, element by element.
ArrayExp[a \in Seq(Int)] == [i \in DOMAIN a |-> np_exp[a[i]]]
ArrayAddScalar[c \in Int, a \in Seq(Int)] == [i \in DOMAIN a |-> np_add[c, a[i]]]
ArrayLog[a \in Seq(Int)] == [i \in DOMAIN a |-> np_log[a[i]]]

ArrayTanh[a \in Seq(Int)] == [i \in DOMAIN a |-> np_tanh[a[i]]]
ArrayMul[a \in Seq(Int), b \in Seq(Int)] == [i \in DOMAIN a |-> np_multiply[a[i], b[i]]]

\* A reduction in place of the elementwise product: every element of the
\* result comes from the first element.
MishExpr_Broadcast(x) == [i \in DOMAIN x |-> Mish[x[1]]]

\* input_x*np.tanh(np.log(np.exp(input_x))): the "1+" of the softplus left out.
MishExpr_NoPlusOne(x) == ArrayMul[x, ArrayTanh[ArrayLog[ArrayExp[x]]]]

\* input_x*np.tanh(np.log(1+np.exp(input_x)))
MishExpr(x) == ArrayMul[x, ArrayTanh[ArrayLog[ArrayAddScalar[HalfOne, ArrayExp[x]]]]]

(***************************************************************************)
(* Files.  tofile writes the raw buffer: two bytes an element, low byte    *)
(* first, no header.                                                       *)
(***************************************************************************)
ItemSize == 2

RECURSIVE ToBytes(_)
ToBytes(a) ==
    IF a = <<>> THEN <<>>
    ELSE <<Head(a) % 256, Head(a) \div 256>> \o ToBytes(Tail(a))

\* What np.fromfile(path, dtype=np.float16) reads back.
FromBytes(bs) == [i \in 1 .. (Len(bs) \div ItemSize) |-> bs[2 * i - 1] + 256 * bs[2 * i]]

Dirs == {"input", "output"}

NoFile == [exists |-> FALSE, writable |-> FALSE, bytes |-> <<>>]

\* A file left by something else: a tensor of another shape.
LegacyFile == [exists |-> TRUE, writable |-> TRUE,
               bytes |-> [i \in 1 .. (ItemSize * NumElems + ItemSize) |-> 255]]

VARIABLES
    pc,         \* "idle" (no process), "sampled" (after line 7), "computed"
                \* (line 9), "wroteInput" (line 12), "done" (line 13 returned),
                \* "failed" (an OSError left gen_golden_data_simple)
    sample,     \* the float64 temporary of line 7, on the sample grid
    input_x,    \* the float16 tensor of line 7
    golden,     \* the float16 tensor of line 9
    dirs,       \* each directory: "missing", "readonly" or "writable"
    files,      \* input/input_x.bin and output/golden.bin
    err,        \* the exception that ended the run, or "none"
    attempts,   \* history: the tofile calls of this run, per file
    initFiles,  \* history: what the first run found: "none", "pair", "other"
    torn        \* history: input_x.bin was rewritten by a run that then
                \* failed on golden.bin, and no run has succeeded since

vars == <<pc, sample, input_x, golden, dirs, files, err, attempts, initFiles, torn>>

Running == {"sampled", "computed", "wroteInput"}

Ended == {"done", "failed"}

PairFiles(t) ==
    [d \in Dirs |-> [exists |-> TRUE, writable |-> TRUE,
                     bytes |-> ToBytes(IF d = "input" THEN astype(t)
                                       ELSE MishExpr(astype(t)))]]

InitProcess ==
    /\ pc = "idle"
    /\ sample = <<>>
    /\ input_x = <<>>
    /\ golden = <<>>
    /\ err = "none"
    /\ attempts = [d \in Dirs |-> 0]
    /\ torn = FALSE

Init ==
    /\ InitProcess
    /\ dirs \in [Dirs -> {"missing", "readonly", "writable"}]
    /\ initFiles \in {"none", "pair", "other"}
    /\ \/ /\ initFiles = "none"
          /\ files = [d \in Dirs |-> NoFile]
       \/ /\ initFiles = "pair"
          /\ \A d \in Dirs : dirs[d] # "missing"
          /\ \E t \in RunTensors : files = PairFiles(t)
       \/ /\ initFiles = "other"
          /\ files = [d \in Dirs |-> IF dirs[d] = "missing" THEN NoFile ELSE LegacyFile]

\* The start of the one-element runs: both directories ready, no file yet.
InitElem ==
    /\ InitProcess
    /\ dirs = [d \in Dirs |-> "writable"]
    /\ initFiles = "none"
    /\ files = [d \in Dirs |-> NoFile]

\* open(path, "wb"): the directory must exist; an existing file is truncated
\* if the file is writable, a new one is created if the directory is.
CanOpen(d) ==
    /\ dirs[d] # "missing"
    /\ IF files[d].exists THEN files[d].writable ELSE dirs[d] = "writable"

OpenError(d) == IF dirs[d] = "missing" THEN "FileNotFoundError" ELSE "PermissionError"

\* The file opened in append mode ("ab") instead of "wb".
tofile_Append(old, arr) ==
    [exists |-> TRUE, writable |-> TRUE, bytes |-> old.bytes \o ToBytes(arr)]

\* arr.tofile(path) on a file that could be opened: the old bytes are gone.
tofile(old, arr) == [exists |-> TRUE, writable |-> TRUE, bytes |-> ToBytes(arr)]

\* Line 7, with the tensor drawn from T.
DrawFrom(T) ==
    /\ pc = "idle"
    /\ \E t \in T :
          /\ sample' = t
          /\ input_x' = astype(t)
    /\ golden' = <<>>
    /\ pc' = "sampled"
    /\ UNCHANGED <<dirs, files, err, attempts, initFiles, torn>>

Sample == DrawFrom(RunTensors)

SampleElem == DrawFrom(GridTensors)

\* input_x *= ...: the product stored into input_x itself.
Compute_InPlace ==
    /\ pc = "sampled"
    /\ golden' = MishExpr(input_x)
    /\ input_x' = golden'
    /\ pc' = "computed"
    /\ UNCHANGED <<sample, dirs, files, err, attempts, initFiles, torn>>

\* Line 9.
Compute ==
    /\ pc = "sampled"
    /\ golden' = MishExpr(input_x)
    /\ pc' = "computed"
    /\ UNCHANGED <<sample, input_x, dirs, files, err, attempts, initFiles, torn>>

\* os.makedirs(..., exist_ok=True) before the write: a missing directory is
\* created instead of ending the run.
WriteInput_MakeDirs ==
    /\ pc = "computed"
    /\ attempts' = [attempts EXCEPT !["input"] = @ + 1]
    /\ IF dirs["input"] = "missing"
       THEN /\ dirs' = [dirs EXCEPT !["input"] = "writable"]
            /\ files' = [files EXCEPT !["input"] = tofile(@, input_x)]
            /\ pc' = "wroteInput"
            /\ err' = err
       ELSE IF CanOpen("input")
       THEN /\ dirs' = dirs
            /\ files' = [files EXCEPT !["input"] = tofile(@, input_x)]
            /\ pc' = "wroteInput"
            /\ err' = err
       ELSE /\ dirs' = dirs
            /\ files' = files
            /\ pc' = "failed"
            /\ err' = OpenError("input")
    /\ UNCHANGED <<sample, input_x, golden, initFiles, torn>>

\* try/except around the write: the OSError is swallowed and line 13 runs.
WriteInput_Swallow ==
    /\ pc = "computed"
    /\ attempts' = [attempts EXCEPT !["input"] = @ + 1]
    /\ files' = IF CanOpen("input")
                THEN [files EXCEPT !["input"] = tofile(@, input_x)]
                ELSE files
    /\ pc' = "wroteInput"
    /\ UNCHANGED <<sample, input_x, golden, dirs, err, initFiles, torn>>

\* Line 12: input_x.tofile(...); an OSError ends the run.
WriteInput ==
    /\ pc = "computed"
    /\ attempts' = [attempts EXCEPT !["input"] = @ + 1]
    /\ IF CanOpen("input")
       THEN /\ files' = [files EXCEPT !["input"] = tofile(@, input_x)]
            /\ pc' = "wroteInput"
            /\ err' = err
       ELSE /\ files' = files
            /\ pc' = "failed"
            /\ err' = OpenError("input")
    /\ UNCHANGED <<sample, input_x, golden, dirs, initFiles, torn>>

\* A failed write tried once more before the error is let through.
WriteGolden_Retry ==
    /\ pc = "wroteInput"
    /\ attempts' = [attempts EXCEPT !["output"] = @ + 1]
    /\ IF CanOpen("output")
       THEN /\ files' = [files EXCEPT !["output"] = tofile(@, golden)]
            /\ pc' = "done"
            /\ err' = err
            /\ torn' = FALSE
       ELSE /\ files' = files
            /\ pc' = IF attempts["output"] = 0 THEN "wroteInput" ELSE "failed"
            /\ err' = IF attempts["output"] = 0 THEN err ELSE OpenError("output")
            /\ torn' = TRUE
    /\ UNCHANGED <<sample, input_x, golden, dirs, initFiles>>

\* input_x.tofile(".../golden.bin"): the wrong array written to golden.bin.
WriteGolden_WrongArray ==
    /\ pc = "wroteInput"
    /\ attempts' = [attempts EXCEPT !["output"] = @ + 1]
    /\ IF CanOpen("output")
       THEN /\ files' = [files EXCEPT !["output"] = tofile(@, input_x)]
            /\ pc' = "done"
            /\ err' = err
            /\ torn' = FALSE
       ELSE /\ files' = files
            /\ pc' = "failed"
            /\ err' = OpenError("output")
            /\ torn' = TRUE
    /\ UNCHANGED <<sample, input_x, golden, dirs, initFiles>>

\* Line 13: golden.tofile(...); an OSError ends the run.
WriteGolden ==
    /\ pc = "wroteInput"
    /\ attempts' = [attempts EXCEPT !["output"] = @ + 1]
    /\ IF CanOpen("output")
       THEN /\ files' = [files EXCEPT !["output"] = tofile(@, golden)]
            /\ pc' = "done"
            /\ err' = err
            /\ torn' = FALSE
       ELSE /\ files' = files
            /\ pc' = "failed"
            /\ err' = OpenError("output")
            /\ torn' = TRUE
    /\ UNCHANGED <<sample, input_x, golden, dirs, initFiles>>

\* Line 16 returns or the traceback is printed: the process exits with the
\* status of the run, and its arrays are gone.
Exit ==
    /\ pc \in Ended
    /\ pc' = "idle"
    /\ sample' = <<>>
    /\ input_x' = <<>>
    /\ golden' = <<>>
    /\ err' = "none"
    /\ attempts' = [d \in Dirs |-> 0]
    /\ UNCHANGED <<dirs, files, initFiles, torn>>

(***************************************************************************)
(* The environment, between runs.                                          *)
(***************************************************************************)
\* rm -r
RemoveDir(d) ==
    /\ pc = "idle"
    /\ dirs[d] # "missing"
    /\ dirs' = [dirs EXCEPT ![d] = "missing"]
    /\ files' = [files EXCEPT ![d] = NoFile]
    /\ UNCHANGED <<pc, sample, input_x, golden, err, attempts, initFiles, torn>>

\* mkdir
MakeDir(d) ==
    /\ pc = "idle"
    /\ dirs[d] = "missing"
    /\ dirs' = [dirs EXCEPT ![d] = "writable"]
    /\ UNCHANGED <<pc, sample, input_x, golden, files, err, attempts, initFiles, torn>>

\* chmod a-w on the directory, or chmod -R a-w (the file in it too).
MakeUnwritable(d, recursive) ==
    /\ pc = "idle"
    /\ dirs[d] = "writable"
    /\ dirs' = [dirs EXCEPT ![d] = "readonly"]
    /\ files' = IF recursive /\ files[d].exists
                THEN [files EXCEPT ![d].writable = FALSE]
                ELSE files
    /\ UNCHANGED <<pc, sample, input_x, golden, err, attempts, initFiles, torn>>

\* chmod -R u+w
MakeWritable(d) ==
    /\ pc = "idle"
    /\ dirs[d] = "readonly"
    /\ dirs' = [dirs EXCEPT ![d] = "writable"]
    /\ files' = IF files[d].exists THEN [files EXCEPT ![d].writable = TRUE] ELSE files
    /\ UNCHANGED <<pc, sample, input_x, golden, err, attempts, initFiles, torn>>

Run == Compute \/ WriteInput \/ WriteGolden

Next ==
    \/ Sample
    \/ Compute
    \/ WriteInput
    \/ WriteGolden
    \/ Exit
    \/ \E d \in Dirs : RemoveDir(d)
    \/ \E d \in Dirs : MakeDir(d)
    \/ \E d \in Dirs, r \in BOOLEAN : MakeUnwritable(d, r)
    \/ \E d \in Dirs : MakeWritable(d)

Spec == Init /\ [][Next]_vars

\* A started run is not suspended: the interpreter executes the next line.
FairSpec == Spec /\ WF_vars(Run)

\* Lines 7 and 9 on one element, over every sample of the grid.
NextElem == SampleElem \/ Compute

SpecElem == InitElem /\ [][NextElem]_vars

(***************************************************************************)
(* Properties.                                                             *)
(***************************************************************************)
Computed == {"computed", "wroteInput", "done", "failed"}

\* The float16 tensor the two-byte elements of a file decode to, and the
\* elementwise Mish of a tensor.
FileTensor(d) == FromBytes(files[d].bytes)

MishOf(x) == [i \in DOMAIN x |-> Mish[x[i]]]

BothExist == \A d \in Dirs : files[d].exists

\* |g - mish(x)| < milli / 1000, g and x float16, mish(x) on the reals.
WithinTol(x, g, milli) ==
    LET d == HalfToFix[g, 24] - MishExact[x]
    IN  (IF d < 0 THEN 0 - d ELSE d) * 1000 < milli * Pow2(24)

\* C1: once line 9 has run, golden has the shape of input_x and every
\* golden[i] is mish evaluated in float16 on the stored input_x[i] alone,
\* input_x[i] being the float16 rounding of the sample.
C1_GoldenIsMish ==
    pc \in Computed =>
        /\ Len(input_x) = NumElems
        /\ Len(golden) = Len(input_x)
        /\ \A i \in 1 .. NumElems :
              /\ input_x[i] = RoundToHalf[sample[i], SampleBits]
              /\ golden[i] = Mish[input_x[i]]

\* C1 witness: golden computed for a tensor whose elements differ.
C1_Witness ==
    /\ pc = "computed"
    /\ input_x[1] # input_x[2]
    /\ golden[1] # golden[2]

\* C2 as stated: every golden element is within 1e-3 of the real
\* x * tanh(ln(1 + exp(x))) of its stored input.
C2_Orig_Within1e3 ==
    pc = "computed" => \A i \in DOMAIN input_x : WithinTol(input_x[i], golden[i], 1)

\* C2 amended: every golden element is within 3e-3 of the real
\* x * tanh(ln(1 + exp(x))) of its stored input.
C2_Within3e3 ==
    pc = "computed" => \A i \in DOMAIN input_x : WithinTol(input_x[i], golden[i], 3)

\* C2 witness: a golden element more than 2e-3 away from the real value.
C2_Witness ==
    /\ pc = "computed"
    /\ ~WithinTol(input_x[1], golden[1], 2)

\* C3 as stated: every stored element x satisfies 1 <= x < 10.
C3_Orig_Below10 ==
    pc # "idle" => \A i \in DOMAIN input_x : HalfOne <= input_x[i] /\ input_x[i] < HalfTen

\* C3 amended: every stored element x satisfies 1 <= x <= 10, and x = 10
\* exactly when the sample is at least 10 - 2^-8 = 2559/256.
C3_StoredRange ==
    pc # "idle" =>
        \A i \in DOMAIN input_x :
            /\ HalfOne <= input_x[i]
            /\ input_x[i] <= HalfTen
            /\ input_x[i] = HalfTen <=> 256 * sample[i] >= 2559 * Pow2(SampleBits)

\* C3 witness: a sample below 10 stored as 10.
C3_Witness ==
    /\ pc = "sampled"
    /\ sample[1] < SampleHigh * Pow2(SampleBits)
    /\ input_x[1] = HalfTen

\* C7: for every stored input, exp(x) and 1 + exp(x) are finite float16
\* values (at most 65504), and so is the golden element.
C7_NoOverflow ==
    pc # "idle" =>
        \A i \in DOMAIN input_x :
            /\ HalfIsFinite(np_exp[input_x[i]])
            /\ HalfIsFinite(np_add[HalfOne, np_exp[input_x[i]]])
            /\ pc = "computed" => HalfIsFinite(golden[i])

\* C7 witness: golden computed for the largest stored input, 10, whose
\* exp is the float16 22032.
C7_Witness ==
    /\ pc = "computed"
    /\ input_x[1] = HalfTen
    /\ np_exp[input_x[1]] = RoundToHalf[22032, 0]
    /\ golden[1] = HalfTen

\* C4: when a run has succeeded, both files exist and each holds exactly
\* NumElems elements of ItemSize bytes, whatever was there before.
C4_FileSizes ==
    pc = "done" =>
        \A d \in Dirs :
            /\ files[d].exists
            /\ Len(files[d].bytes) = ItemSize * NumElems

\* C4 witness: a successful run over files that were longer.
C4_Witness ==
    /\ pc = "done"
    /\ initFiles = "other"
    /\ Len(LegacyFile.bytes) > Len(files["output"].bytes)

\* The write of line 12 (d = "input") or of line 13 (d = "output") is next.
AboutToWrite(d) ==
    \/ d = "input" /\ pc = "computed"
    \/ d = "output" /\ pc = "wroteInput"

\* The process never changes the directories.
DirsKept == pc # "idle" => dirs' = dirs

\* C5 as stated: a write into a directory that does not exist or is not
\* writable ends the run in failure, and no directory is created.
C5_Orig_DirDecides ==
    [][/\ \A d \in Dirs : AboutToWrite(d) /\ dirs[d] # "writable" => pc' = "failed"
       /\ DirsKept]_vars

\* C5 amended: a write ends the run in failure, with the OSError recorded
\* and the files untouched, when the directory does not exist, or the file
\* exists and is not writable, or the file does not exist and the directory
\* is not writable; a write into an unwritable directory that holds a
\* writable file succeeds; and no directory is created.
C5_OpenDecides ==
    [][/\ \A d \in Dirs :
             /\ /\ AboutToWrite(d)
                /\ \/ dirs[d] = "missing"
                   \/ files[d].exists /\ ~files[d].writable
                   \/ ~files[d].exists /\ dirs[d] = "readonly"
                => /\ pc' = "failed"
                   /\ err' \in {"FileNotFoundError", "PermissionError"}
                   /\ files' = files
             /\ /\ AboutToWrite(d)
                /\ dirs[d] = "readonly"
                /\ files[d].exists
                /\ files[d].writable
                => pc' \in {"wroteInput", "done"}
       /\ DirsKept]_vars

\* C5 witness: a run ended by the PermissionError of a golden.bin that cannot
\* be created in its unwritable directory.
C5_Witness ==
    /\ pc = "failed"
    /\ err = "PermissionError"
    /\ attempts["output"] = 1
    /\ dirs["output"] = "readonly"
    /\ ~files["output"].exists

\* C6: when a run has succeeded, input_x.bin holds exactly the tensor
\* sampled in this run, which the computation left as it was cast,
\* golden.bin holds exactly the golden tensor, and so golden.bin is the
\* elementwise Mish of input_x.bin.
C6_FilesOfThisRun ==
    pc = "done" =>
        /\ input_x = astype(sample)
        /\ files["input"].bytes = ToBytes(astype(sample))
        /\ files["output"].bytes = ToBytes(golden)
        /\ FileTensor("output") = MishOf(FileTensor("input"))

\* C6 witness: a successful run that replaced an earlier pair.
C6_Witness ==
    /\ pc = "done"
    /\ initFiles = "pair"
    /\ FileTensor("input")[1] # FileTensor("input")[2]

\* The order of a run: line 7, line 9, line 12, line 13, each at most once,
\* a failure ending the run.
StepOrder ==
    \/ pc' = pc
    \/ pc = "idle" /\ pc' = "sampled"
    \/ pc = "sampled" /\ pc' = "computed"
    \/ pc = "computed" /\ pc' \in {"wroteInput", "failed"}
    \/ pc = "wroteInput" /\ pc' \in {"done", "failed"}
    \/ pc \in Ended /\ pc' = "idle"

\* C8: a run is one pass in the order sample, compute, write input_x.bin,
\* write golden.bin; each write is attempted at most once per run; after a
\* failure nothing more is written; and every run that has started ends.
C8_LinearRun ==
    /\ [][StepOrder /\ (pc = "failed" => files' = files)]_vars
    /\ [](\A d \in Dirs : attempts[d] <= 1)
    /\ [](pc \in Running => <>(pc \in Ended))

\* C8 witness: a run ended by a failed write of golden.bin, attempted once.
C8_Witness ==
    /\ pc = "failed"
    /\ attempts["input"] = 1
    /\ attempts["output"] = 1

\* C9: golden.bin is created or modified only by a run that has already
\* written its input_x.bin; a run whose write of input_x.bin fails leaves
\* golden.bin as it was.
C9_InputBeforeGolden ==
    [][/\ /\ files'["output"].exists
          /\ ~files["output"].exists \/ files'["output"].bytes # files["output"].bytes
          => /\ pc = "wroteInput"
             /\ attempts["input"] = 1
             /\ files["input"].exists
             /\ files["input"].bytes = ToBytes(input_x)
       /\ pc = "computed" /\ pc' = "failed" => files'["output"] = files["output"]]_vars

\* C9 witness: a run ended by the failed write of input_x.bin, golden.bin
\* still there and never attempted.
C9_Witness ==
    /\ pc = "failed"
    /\ attempts["input"] = 1
    /\ attempts["output"] = 0
    /\ files["output"].exists

\* No run is in progress.
AtRest == pc \in {"idle", "done", "failed"}

StartedPaired == initFiles \in {"none", "pair"}

\* C10 as stated: from no files or a matching pair, whenever no run is in
\* progress and both files exist, golden.bin is the Mish of input_x.bin.
C10_Orig_AlwaysPaired ==
    StartedPaired /\ AtRest /\ BothExist
        => FileTensor("output") = MishOf(FileTensor("input"))

\* C10 amended: the same, unless a run has rewritten input_x.bin and then
\* failed on golden.bin and no run has succeeded since.
C10_PairedUnlessTorn ==
    StartedPaired /\ AtRest /\ BothExist /\ ~torn
        => FileTensor("output") = MishOf(FileTensor("input"))

\* C10 witness: a run that failed on input_x.bin leaves the matching pair
\* of an earlier successful run.
C10_Witness ==
    /\ initFiles = "none"
    /\ pc = "failed"
    /\ attempts["output"] = 0
    /\ BothExist
    /\ ~torn

====
